---- MODULE Spec2Model ----
(***************************************************************************)
(* OCR comparison workflow of src/ocrs: the three engine adapters          *)
(* (GoogleCloudVisionAPI, EasyOCRProcessor, PyTesseractOCR) and the        *)
(* OCRComparator that runs them, summarises and exports their results      *)
(* (specification Spec); the logger factory of src/utils/logger.py         *)
(* (SpecLogger); the bearer-token dependency of src/deps.py and the        *)
(* middleware of src/main.py (SpecAuth).                                   *)
(*                                                                         *)
(* Representation.                                                         *)
(*  - A Python str that holds recognised text is a sequence of             *)
(*    one-character strings; messages and dict keys are TLA+ strings.      *)
(*  - A Python float is an exact rational <<n, d>> in lowest terms, d > 0. *)
(*  - Optional values: None is the empty tuple.                            *)
(*  - A Python dict whose order matters (self.results) is a sequence of    *)
(*    <<key, value>> pairs in insertion order; a value dict is a record    *)
(*    whose DOMAIN is the set of keys it has.                              *)
(*  - A call that may raise yields [raised |-> TRUE, exc |-> message] or   *)
(*    [raised |-> FALSE, value |-> v].                                     *)
(***************************************************************************)
EXTENDS Integers, Sequences, FiniteSets, TLC

VARIABLES
    results,    \* OCRComparator.results
    pc,         \* "idle", or the block of run_all that runs next
    calls,      \* the adapter calls of the latest run_all, in order
    rerun,      \* run_all has been entered with results already filled
    out,        \* the latest call of the comparator and its outcome
    loggers,    \* the loggers of the logging module, by name
    logcall,    \* the latest call of get_logger and its outcome
    firstcall,  \* per logger name, the arguments of the first call made
                \* and of the first call that returned
    request,    \* the HTTP request in the middleware, with its environment
    response    \* what the middleware did for it

vars == <<results, pc, calls, rerun, out, loggers, logcall, firstcall, request, response>>

ocrVars == <<results, pc, calls, rerun, out>>

logVars == <<loggers, logcall, firstcall>>

webVars == <<request, response>>

\* Largest number of detections / tokens / confidence values one engine
\* reports for the image.
MaxDet == 2

----------------------------------------------------------------------------
\* Python values

None == <<>>

Raise(msg) == [raised |-> TRUE, exc |-> msg]

Return(v) == [raised |-> FALSE, value |-> v]

\* dict.get(key, default)
Get(d, key, default) == IF key \in DOMAIN d THEN d[key] ELSE default

Abs(n) == IF n < 0 THEN -n ELSE n

RECURSIVE GCD(_, _)
GCD(a, b) == IF b = 0 THEN a ELSE GCD(b, a % b)

\* the float n/d
Rat(n, d) == LET g == GCD(Abs(n), d) IN <<n \div g, d \div g>>

Zero == Rat(0, 1)

One == Rat(1, 1)

Half == Rat(1, 2)

RAdd(a, b) == Rat(a[1] * b[2] + b[1] * a[2], a[2] * b[2])

RLeq(a, b) == a[1] * b[2] <= b[1] * a[2]

RLess(a, b) == a[1] * b[2] < b[1] * a[2]

\* sum(xs), starting from the int 0
RECURSIVE RSum(_)
RSum(xs) == IF xs = <<>> THEN Zero ELSE RAdd(xs[1], RSum(Tail(xs)))

\* a / n for a float a and an int n
TrueDiv(a, n) ==
    IF n = 0 THEN Raise("division by zero")
    ELSE Return(Rat(a[1], a[2] * n))

\* the slice [:n-1]
Slice_short(s, n) == SubSeq(s, 1, IF Len(s) < n - 1 THEN Len(s) ELSE n - 1)

\* seq[:n]
Slice(s, n) == SubSeq(s, 1, IF Len(s) < n THEN Len(s) ELSE n)

Space == " "

\* sep.join(parts) with sep = " "
RECURSIVE Join(_)
Join(parts) ==
    IF parts = <<>> THEN <<>>
    ELSE IF Len(parts) = 1 THEN parts[1]
    ELSE parts[1] \o <<Space>> \o Join(Tail(parts))

RECURSIVE LStrip(_)
LStrip(s) == IF s # <<>> /\ s[1] = Space THEN LStrip(Tail(s)) ELSE s

RECURSIVE RStrip(_)
RStrip(s) ==
    IF s # <<>> /\ s[Len(s)] = Space THEN RStrip(SubSeq(s, 1, Len(s) - 1))
    ELSE s

\* str.strip()
Strip(s) == RStrip(LStrip(s))

\* a store that always appends, as a list of pairs would
DictSet_append(d, key, value) == Append(d, <<key, value>>)

\* dict[key] = value: an existing key keeps its position, a new key is
\* appended
RECURSIVE DictSet(_, _, _)
DictSet(d, key, value) ==
    IF d = <<>> THEN << <<key, value>> >>
    ELSE IF d[1][1] = key THEN << <<key, value>> >> \o Tail(d)
    ELSE <<d[1]>> \o DictSet(Tail(d), key, value)

Keys(d) == [i \in 1..Len(d) |-> d[i][1]]

Has(d, key) == \E i \in 1..Len(d) : d[i][1] = key

Lookup(d, key) == d[CHOOSE i \in 1..Len(d) : d[i][1] = key][2]

\* sequences over S of length at most n
SeqsUpTo(S, n) == UNION {[1..k -> S] : k \in 0..n}

----------------------------------------------------------------------------
\* The image and what the three backends can answer for it

ImagePath == <<"images", "sample.jpg">>

\* Path(p).name
PathName(p) == p[Len(p)]

Short == <<"a">>

Padded == <<Space, "a", Space>>

Blank == <<Space>>

\* 98 characters: "a" + " " + Long has exactly 100
Long == [i \in 1..98 |-> IF i % 3 = 0 THEN "b" ELSE IF i % 3 = 1 THEN "c" ELSE "d"]

\* 101 characters
Longer == Long \o <<"x", "y", "z">>

\* Cloud vision: client construction, reading the file and the request can
\* each fail, or the response carries an error message; otherwise the
\* response has a text and the confidence values the walk over the
\* annotation collects.
CloudEnvs ==
    {[kind |-> k, text |-> <<>>, confidences |-> <<>>] :
        k \in {"no_client", "unreadable", "unreachable", "api_error"}}
    \cup {[kind |-> "ok", text |-> t, confidences |-> cs] :
            t \in {<<>>, Longer}, cs \in SeqsUpTo({Half, One}, MaxDet)}

\* EasyOCR: building the Reader or readtext can fail; otherwise a list of
\* (box, text, confidence) triples.
EasyDetections == {<<"box", Short, Half>>, <<"box", Long, One>>}

EasyEnvs ==
    {[kind |-> k, detections |-> <<>>] : k \in {"reader_failed", "readtext_failed"}}
    \cup {[kind |-> "ok", detections |-> ds] : ds \in SeqsUpTo(EasyDetections, MaxDet)}

\* Tesseract: the file can be missing or undecodable, the binary can be
\* missing; otherwise rows of (text, conf) with conf in -1..100.
TessRows ==
    {[text |-> Blank, conf |-> -1], [text |-> Padded, conf |-> -1],
     [text |-> Padded, conf |-> 96], [text |-> Long, conf |-> 50]}

TessEnvs ==
    {[kind |-> k, rows |-> <<>>] : k \in {"missing_file", "bad_image", "no_binary"}}
    \cup {[kind |-> "ok", rows |-> rs] : rs \in SeqsUpTo(TessRows, MaxDet)}

----------------------------------------------------------------------------
\* src/utils/logger.py
\* A logger name is the sequence of its dot-separated parts.

\* __name__ inside utils/logger.py
LoggerModuleName == <<"utils", "logger">>

\* the name argument of get_logger
NameArgs == {None, <<"__main__">>, <<"main">>}

LoggerNames == {LoggerModuleName, <<"main">>}

LevelArgs == {"info", "DEBUG"}

\* logging._nameToLevel
NameToLevel == [NOTSET |-> 0, DEBUG |-> 10, INFO |-> 20, WARNING |-> 30]

\* str.upper() on the level names in use
Upper(s) ==
    IF s = "info" THEN "INFO"
    ELSE IF s = "debug" THEN "DEBUG"
    ELSE s

\* logging._checkLevel for a string
CheckLevel(level) ==
    IF level \in DOMAIN NameToLevel THEN Return(NameToLevel[level])
    ELSE Raise("Unknown level")

\* logging.getLogger(name) for a name not seen before
NewLogger == [level |-> NameToLevel.NOTSET, handlers |-> <<>>, propagate |-> TRUE]

NewLoggers == [n \in LoggerNames |-> NewLogger]

\* what creating the log directory and opening the log file can do
LogDirOutcomes == {"ok", "mkdir_error", "open_error"}

\* logger_name.replace('.', '_')
RECURSIVE ReplaceDots(_)
ReplaceDots(name) ==
    IF Len(name) <= 1 THEN name
    ELSE <<name[1], "_">> \o ReplaceDots(Tail(name))

\* log_dir / f"{...}.log"
LogFile(log_dir, logger_name) == <<log_dir>> \o ReplaceDots(logger_name) \o <<".log">>

\* Logger.addHandler: a handler already present is not added again
AddHandler(logger, h) ==
    IF \E i \in 1..Len(logger.handlers) : logger.handlers[i] = h
    THEN logger
    ELSE [logger EXCEPT !.handlers = Append(@, h)]

\* a new handler object; serial tells it from the handlers made before it
NewHandler(logger, kind, level, target) ==
    [kind |-> kind, level |-> level, target |-> target,
     serial |-> Len(logger.handlers)]

\* get_logger without the "if logger.handlers" return
GetLogger_always(ls, name, log_level, console, fs) ==
    LET named == IF name # None THEN name ELSE LoggerModuleName
        logger_name == IF named = <<"__main__">> THEN <<"main">> ELSE named
        logger == ls[logger_name]
        level == CheckLevel(Upper(log_level))
        levelled == [logger EXCEPT !.level = level.value]
        with_file == AddHandler(levelled,
                        NewHandler(levelled, "file", level.value,
                                   LogFile("logs", logger_name)))
        with_console == IF console
                        THEN AddHandler(with_file,
                                NewHandler(with_file, "console", level.value,
                                           <<"stdout">>))
                        ELSE with_file
    IN  IF fs # "ok"
        THEN [raised |-> TRUE, logger |-> logger_name,
              loggers |-> [ls EXCEPT ![logger_name] = levelled]]
        ELSE [raised |-> FALSE, logger |-> logger_name,
              loggers |-> [ls EXCEPT ![logger_name] =
                              [with_console EXCEPT !.propagate = FALSE]]]

\* get_logger(name, log_level, "logs", console), with fs what the file
\* system does: the loggers afterwards, the name of the logger concerned and
\* whether the call raised
GetLogger(ls, name, log_level, console, fs) ==
    LET named == IF name # None THEN name ELSE LoggerModuleName
        logger_name == IF named = <<"__main__">> THEN <<"main">> ELSE named
        logger == ls[logger_name]
        level == CheckLevel(Upper(log_level))
    IN  IF logger.handlers # <<>>
        THEN [raised |-> FALSE, logger |-> logger_name, loggers |-> ls]
        ELSE IF level.raised
        THEN [raised |-> TRUE, logger |-> logger_name, loggers |-> ls]
        ELSE LET levelled == [logger EXCEPT !.level = level.value]
                 with_file == AddHandler(levelled,
                                 NewHandler(levelled, "file", level.value,
                                            LogFile("logs", logger_name)))
                 with_console == IF console
                                 THEN AddHandler(with_file,
                                         NewHandler(with_file, "console",
                                                    level.value, <<"stdout">>))
                                 ELSE with_file
             IN  IF fs # "ok"
                 THEN [raised |-> TRUE, logger |-> logger_name,
                       loggers |-> [ls EXCEPT ![logger_name] = levelled]]
                 ELSE [raised |-> FALSE, logger |-> logger_name,
                       loggers |-> [ls EXCEPT ![logger_name] =
                                       [with_console EXCEPT !.propagate = FALSE]]]

Handlers(ls, n, kind) == SelectSeq(ls[n].handlers, LAMBDA h : h.kind = kind)

get_logger ==
    /\ \E name \in NameArgs, log_level \in LevelArgs, console \in BOOLEAN,
          fs \in LogDirOutcomes :
        LET r == GetLogger(loggers, name, log_level, console, fs)
            n == r.logger
            args == <<[log_level |-> log_level, console |-> console]>>
        IN  /\ loggers' = r.loggers
            /\ logcall' = <<[logger |-> n,
                             raised |-> r.raised,
                             added |-> Len(r.loggers[n].handlers) - Len(loggers[n].handlers),
                             repeats_made |-> firstcall[n].made # None,
                             repeats_returned |-> firstcall[n].returned # None]>>
            /\ firstcall' =
                 [firstcall EXCEPT
                    ![n].made = IF @ = None THEN args ELSE @,
                    ![n].returned = IF @ = None /\ ~r.raised THEN args ELSE @]
    /\ UNCHANGED <<ocrVars, webVars>>

----------------------------------------------------------------------------
\* src/deps.py and src/main.py
\* A URL path and the start of a header are sequences of characters; a
\* bearer token is one cell of such a sequence.  An environment variable
\* or header is None or <<value>>.

StartsWith(s, prefix) ==
    Len(s) >= Len(prefix) /\ SubSeq(s, 1, Len(prefix)) = prefix

\* str.lower() on the letters in use
LowerChar(c) ==
    IF c = "B" THEN "b" ELSE IF c = "E" THEN "e" ELSE IF c = "A" THEN "a"
    ELSE IF c = "R" THEN "r" ELSE IF c = "S" THEN "s" ELSE IF c = "I" THEN "i"
    ELSE IF c = "C" THEN "c" ELSE c

Lower(s) == [i \in 1..Len(s) |-> LowerChar(s[i])]

PathHealth == <<"/", "h", "e", "a", "l", "t", "h">>

PathOpenapi == <<"/", "o", "p", "e", "n", "a", "p", "i", ".", "j", "s", "o", "n">>

PathFavicon == <<"/", "f", "a", "v", "i", "c", "o", "n", ".", "i", "c", "o">>

PathDocs == <<"/", "d", "o", "c", "s">>

PathRedoc == <<"/", "r", "e", "d", "o", "c">>

\* the paths requests come in on
Paths ==
    {PathHealth, PathOpenapi, PathFavicon, PathDocs, PathRedoc,
     <<"/", "d", "o", "c", "s", "i", "f", "y">>,
     <<"/", "u", "s", "e", "r", "s", "/", "7">>}

\* the paths the application has a route for
Routes == Paths \ {PathFavicon, <<"/", "d", "o", "c", "s", "i", "f", "y">>}

SupabaseUrl == <<"https://project.supabase.co">>

DefaultDebugToken == <<"super-secret-debug-token">>

\* the bearer tokens presented: what jwt.get_unverified_header and
\* jwt.decode find in each; a token not listed is not a JWT
GoodIssuer == SupabaseUrl \o <<"/auth/v1/">>

JwtOf(kid, signer, iss, aud, expired) ==
    <<[header |-> [alg |-> "ES256", kid |-> kid], signer |-> signer,
       expired |-> expired,
       payload |-> [sub |-> "user-1", iss |-> iss, aud |-> aud]]>>

JwtParts(token) ==
    IF token = <<"good">> THEN JwtOf(<<"k1">>, "k1", GoodIssuer, "authenticated", FALSE)
    ELSE IF token = <<"nokid">> THEN JwtOf(None, "k1", GoodIssuer, "authenticated", FALSE)
    ELSE IF token = <<"unknownkid">> THEN JwtOf(<<"k9">>, "k9", GoodIssuer, "authenticated", FALSE)
    ELSE IF token = <<"forged">> THEN JwtOf(<<"k1">>, "k0", GoodIssuer, "authenticated", FALSE)
    ELSE IF token = <<"badiss">> THEN JwtOf(<<"k1">>, "k1", <<"https://evil.example", "/auth/v1/">>, "authenticated", FALSE)
    ELSE IF token = <<"badaud">> THEN JwtOf(<<"k1">>, "k1", GoodIssuer, "anon", FALSE)
    ELSE IF token = <<"expired">> THEN JwtOf(<<"k1">>, "k1", GoodIssuer, "authenticated", TRUE)
    ELSE None

Tokens ==
    {<<"good">>, <<"nokid">>, <<"unknownkid">>, <<"forged">>, <<"badiss">>,
     <<"badaud">>, <<"expired">>, <<"garbage">>, DefaultDebugToken, <<"letmein">>}

Bearer == <<"b", "e", "a", "r", "e", "r", " ">>

\* the Authorization header of a request
AuthHeaders ==
    {None}
    \cup {<<Bearer \o t>> : t \in Tokens}
    \cup {<<Bearer \o <<Space, "good", Space>> >>,
          <<<<"B", "E", "A", "R", "E", "R", " ">> \o <<"good">> >>,
          <<<<"B", "a", "s", "i", "c", " ">> \o <<"good">> >>}

\* what GET <supabase_url>/auth/v1/jwks answers
JwksKey(kid) == [kid |-> <<kid>>, kty |-> "EC", signer |-> kid]

JwksResponses ==
    {[kind |-> k, keys |-> <<>>] :
        k \in {"connect_error", "http_error", "not_json", "no_keys"}}
    \cup {[kind |-> "ok", keys |-> ks] :
            ks \in {<<JwksKey("k1")>>, <<JwksKey("k0"), JwksKey("k1")>>}}

\* the process environment and the issuer a request meets
Environments ==
    {[supabase_url |-> u, debug_token |-> d, jwks |-> j] :
        u \in {None, <<SupabaseUrl>>},
        d \in {None, << <<"letmein">> >>},
        j \in JwksResponses}

\* os.getenv(name, default)
Getenv(value, default) == IF value = None THEN default ELSE value[1]

Exception(type, detail) == [type |-> type, detail |-> detail]

HTTPException(status_code, detail) ==
    [type |-> "HTTPException", status_code |-> status_code, detail |-> detail]

\* the classes named by "except (JWTError, JWKError, httpx.HTTPError)" and
\* their subclasses
CaughtTypes ==
    {"JWTError", "ExpiredSignatureError", "JWTClaimsError", "JWKError",
     "httpx.ConnectError", "httpx.HTTPStatusError"}

\* the loop over jwks["keys"]
RECURSIVE FindKey(_, _)
FindKey(keys, kid) ==
    IF keys = <<>> THEN Raise(HTTPException(401, "Public key not found"))
    ELSE IF keys[1].kid = kid THEN Return(keys[1])
    ELSE FindKey(Tail(keys), kid)

get_public_key(kid, supabase_url, jwks) ==
    IF jwks.kind = "connect_error"
    THEN Raise(Exception("httpx.ConnectError", "All connection attempts failed"))
    ELSE IF jwks.kind = "http_error"
    THEN Raise(Exception("httpx.HTTPStatusError", "Server error '500'"))
    ELSE IF jwks.kind = "not_json"
    THEN Raise(Exception("JSONDecodeError", "Expecting value"))
    ELSE IF jwks.kind = "no_keys"
    THEN Raise(Exception("KeyError", "keys"))
    ELSE FindKey(jwks.keys, kid)

\* jwt.get_unverified_header
GetUnverifiedHeader(token) ==
    IF JwtParts(token) = None
    THEN Raise(Exception("JWTError", "Error decoding token headers"))
    ELSE Return(JwtParts(token)[1].header)

\* jwt.decode(token, key, algorithms=["ES256"], audience="authenticated")
JwtDecode(token, key) ==
    LET jwt == JwtParts(token)[1]
    IN  IF key.kty # "EC"
        THEN Raise(Exception("JWKError", "Unable to find an algorithm for key"))
        ELSE IF jwt.header.alg # "ES256"
        THEN Raise(Exception("JWTError", "The specified alg value is not allowed"))
        ELSE IF jwt.signer # key.signer
        THEN Raise(Exception("JWTError", "Signature verification failed"))
        ELSE IF jwt.expired
        THEN Raise(Exception("ExpiredSignatureError", "Signature has expired"))
        ELSE IF jwt.payload.aud # "authenticated"
        THEN Raise(Exception("JWTClaimsError", "Invalid audience"))
        ELSE Return(jwt.payload)

DebugUser == [sub |-> "debug-user", email |-> "you@localhost"]

\* the body of the try block of get_current_user
get_current_user_try(token, supabase_url, jwks) ==
    LET unverified_header == GetUnverifiedHeader(token)
    IN  IF unverified_header.raised THEN unverified_header
        ELSE LET kid == Get(unverified_header.value, "kid", None)
             IN  IF kid = None THEN Raise(Exception("JWTError", "No kid in token"))
                 ELSE LET public_key == get_public_key(kid, supabase_url, jwks)
                      IN  IF public_key.raised THEN public_key
                          ELSE LET payload == JwtDecode(token, public_key.value)
                               IN  IF payload.raised THEN payload
                                   ELSE IF Get(payload.value, "iss", None) #
                                              supabase_url \o <<"/auth/v1/">>
                                   THEN Raise(Exception("JWTError", "Invalid issuer"))
                                   ELSE payload

get_current_user(credentials, env) ==
    LET supabase_url == Getenv(env.supabase_url, <<>>)
        debug_token == Getenv(env.debug_token, DefaultDebugToken)
    IN  IF credentials # None /\ credentials[1].credentials = debug_token
        THEN Return(DebugUser)
        ELSE IF supabase_url = <<>> \/ credentials = None
        THEN Raise(HTTPException(401, "Missing token or Supabase URL"))
        ELSE LET r == get_current_user_try(credentials[1].credentials,
                                           supabase_url, env.jwks)
             IN  IF r.raised /\ r.exc.type \in CaughtTypes
                 THEN Raise(HTTPException(401, "Invalid or expired token"))
                 ELSE r

\* the test of lines 43-44 of supabase_auth_middleware
IsPublicPath(path) ==
    \/ path \in {PathHealth, PathOpenapi, PathFavicon}
    \/ StartsWith(path, PathDocs)
    \/ StartsWith(path, PathRedoc)

\* lines 48-52: the credentials taken from the Authorization header
Credentials(auth_header) ==
    IF auth_header # None /\ StartsWith(Lower(auth_header[1]), Bearer)
    THEN <<[scheme |-> "bearer",
            credentials |-> Strip(SubSeq(auth_header[1], 8, Len(auth_header[1])))]>>
    ELSE None

\* call_next(request): the routed application answers
CallNext(path) == IF path \in Routes THEN 200 ELSE 404

Response(status_code, headers, events, user, credentials, auth) ==
    <<[status_code |-> status_code, headers |-> headers, events |-> events,
       user |-> user, credentials |-> credentials, auth |-> auth]>>

\* a client sends a request
receive_request ==
    /\ \E path \in Paths, auth_header \in AuthHeaders, env \in Environments :
        request' = <<[path |-> path, authorization |-> auth_header, env |-> env]>>
    /\ response' = None
    /\ UNCHANGED <<ocrVars, logVars>>

\* the middleware with "except HTTPException" in place of "except Exception"
supabase_auth_middleware_http_only ==
    /\ request # None
    /\ response = None
    /\ LET path == request[1].path
       IN  IF IsPublicPath(path)
           THEN response' = Response(CallNext(path), <<>>, <<"call_next">>,
                                     None, None, None)
           ELSE LET credentials == Credentials(request[1].authorization)
                    r == get_current_user(credentials, request[1].env)
                IN  IF r.raised /\ r.exc.type = "HTTPException"
                    THEN response' =
                            Response(401, <<"WWW-Authenticate", "Bearer">>,
                                     <<"get_current_user">>, None, credentials, <<r>>)
                    ELSE IF r.raised
                    THEN response' =
                            Response(500, <<>>, <<"get_current_user">>,
                                     None, credentials, <<r>>)
                    ELSE response' =
                            Response(CallNext(path), <<>>,
                                     <<"get_current_user", "call_next">>,
                                     <<r.value>>, credentials, <<r>>)
    /\ UNCHANGED <<request, ocrVars, logVars>>

\* supabase_auth_middleware answers the request: events lists
\* get_current_user and call_next in the order they were called, user is
\* request.state.user
supabase_auth_middleware ==
    /\ request # None
    /\ response = None
    /\ LET path == request[1].path
       IN  IF IsPublicPath(path)
           THEN response' = Response(CallNext(path), <<>>, <<"call_next">>,
                                     None, None, None)
           ELSE LET credentials == Credentials(request[1].authorization)
                    r == get_current_user(credentials, request[1].env)
                IN  IF r.raised
                    THEN response' =
                            Response(401, <<"WWW-Authenticate", "Bearer">>,
                                     <<"get_current_user">>, None, credentials, <<r>>)
                    ELSE response' =
                            Response(CallNext(path), <<>>,
                                     <<"get_current_user", "call_next">>,
                                     <<r.value>>, credentials, <<r>>)
    /\ UNCHANGED <<request, ocrVars, logVars>>

----------------------------------------------------------------------------
\* src/ocrs/GoogleCloudVisionAPI.py

GoogleCloudVisionAPI_detect_document(env) ==
    IF env.kind = "no_client"
    THEN Raise("Your default credentials were not found")
    ELSE IF env.kind = "unreadable"
    THEN Raise("No such file or directory")
    ELSE IF env.kind = "unreachable"
    THEN Raise("503 failed to connect to all addresses")
    ELSE IF env.kind = "api_error"
    THEN Raise("Google Vision API Error: Bad image data")
    ELSE LET all_confidences == env.confidences
         IN  Return([full_text |-> env.text,
                     average_confidence |->
                        IF all_confidences # <<>>
                        THEN TrueDiv(RSum(all_confidences), Len(all_confidences)).value
                        ELSE None])

----------------------------------------------------------------------------
\* src/ocrs/models/EasyOCR.py

EasyOCRProcessor_init(env) ==
    IF env.kind = "reader_failed"
    THEN Raise("could not load detection model")
    ELSE Return("reader")

EasyOCRProcessor_process_image(env) ==
    IF env.kind = "readtext_failed"
    THEN Raise("image could not be read")
    ELSE LET res == env.detections
         IN  IF res = <<>>
             THEN Return(<<Zero, <<>> >>)
             ELSE LET confidences == [i \in 1..Len(res) |-> res[i][3]]
                      texts == [i \in 1..Len(res) |-> res[i][2]]
                      avg_confidence == TrueDiv(RSum(confidences), Len(confidences)).value
                  IN  Return(<<avg_confidence, texts>>)

----------------------------------------------------------------------------
\* src/ocrs/models/PyTesseract.py

\* the loop over the rows of image_to_data: rows with blank text or a
\* confidence under the threshold are skipped
RECURSIVE ParseRows(_, _)
ParseRows(rows, min_confidence) ==
    IF rows = <<>> THEN <<>>
    ELSE LET text == Strip(rows[1].text)
             conf == Rat(rows[1].conf, 1)
             rest == ParseRows(Tail(rows), min_confidence)
         IN  IF text # <<>> /\ RLeq(min_confidence, conf)
             THEN <<[conf |-> conf, text |-> text]>> \o rest
             ELSE rest

\* the body of the try block
PyTesseractOCR_try(env, min_confidence) ==
    IF env.kind = "missing_file"
    THEN Raise("Image file not found")
    ELSE IF env.kind = "bad_image"
    THEN Raise("cannot identify image file")
    ELSE IF env.kind = "no_binary"
    THEN Raise("TesseractNotFoundError")
    ELSE LET parsed_data == ParseRows(env.rows, min_confidence)
             conf_scores == [i \in 1..Len(parsed_data) |-> parsed_data[i].conf]
         IN  IF conf_scores = <<>>
             THEN Return(<<[data |-> <<>>, average_confidence |-> Zero]>>)
             ELSE Return(<<[data |-> parsed_data,
                            average_confidence |->
                                TrueDiv(RSum(conf_scores), Len(conf_scores)).value]>>)

\* only the TesseractNotFoundError clause: any other exception escapes
PyTesseractOCR_process_image_with_confidence_narrow(env, min_confidence) ==
    LET r == PyTesseractOCR_try(env, min_confidence)
    IN  IF r.raised /\ r.exc = "TesseractNotFoundError" THEN Return(None)
        ELSE r

\* both except clauses return None
PyTesseractOCR_process_image_with_confidence(env, min_confidence) ==
    LET r == PyTesseractOCR_try(env, min_confidence)
    IN  IF r.raised /\ r.exc = "TesseractNotFoundError" THEN Return(None)
        ELSE IF r.raised THEN Return(None)
        ELSE r

----------------------------------------------------------------------------
\* src/ocrs/BestOCR.py

Success == <<"success">>

\* f"error: {str(e)}"
ErrorStatus(msg) == <<"error: ", msg>>

Unknown == <<"unknown">>

IsError(status) == Len(status) = 2 /\ status[1] = "error: "

Failed(msg) == [confidence |-> Zero, status |-> ErrorStatus(msg)]

\* f"{x:.4f}" raises TypeError for None
Format4f(x) ==
    IF x = None
    THEN Raise("unsupported format string passed to NoneType.__format__")
    ELSE Return(x)

\* lines 42-55 of run_all: the entry is stored, then the log line is
\* formatted, and the handler overwrites the entry if either step raised
RunAll_cloud(res, env) ==
    LET r == GoogleCloudVisionAPI_detect_document(env)
    IN  IF r.raised
        THEN DictSet(res, "GoogleCloudVision", Failed(r.exc))
        ELSE LET confidence == Get(r.value, "average_confidence", Zero)
                 stored == DictSet(res, "GoogleCloudVision",
                                   [confidence |-> confidence,
                                    full_text |-> Get(r.value, "full_text", <<>>),
                                    status |-> Success])
                 line == Format4f(confidence)
             IN  IF line.raised
                 THEN DictSet(stored, "GoogleCloudVision", Failed(line.exc))
                 ELSE stored

\* lines 57-70
RunAll_easy(res, env) ==
    LET p == EasyOCRProcessor_init(env)
        r == IF p.raised THEN p ELSE EasyOCRProcessor_process_image(env)
    IN  IF r.raised
        THEN DictSet(res, "EasyOCR", Failed(r.exc))
        ELSE LET avg_confidence == r.value[1]
                 texts == r.value[2]
                 stored == DictSet(res, "EasyOCR",
                                   [confidence |-> avg_confidence,
                                    full_text |-> Join(texts),
                                    status |-> Success])
                 line == Format4f(avg_confidence)
             IN  IF line.raised
                 THEN DictSet(stored, "EasyOCR", Failed(line.exc))
                 ELSE stored

\* lines 72-92
RunAll_tess(res, env) ==
    LET r == PyTesseractOCR_process_image_with_confidence(env, Zero)
    IN  IF r.raised
        THEN DictSet(res, "PyTesseract", Failed(r.exc))
        ELSE IF r.value = None
        THEN DictSet(res, "PyTesseract", Failed("PyTesseract returned None"))
        ELSE LET result == r.value[1]
                 confidence == Get(result, "average_confidence", Zero)
                 data == Get(result, "data", <<>>)
                 full_text == Join([i \in 1..Len(data) |-> data[i].text])
                 stored == DictSet(res, "PyTesseract",
                                   [confidence |-> confidence,
                                    full_text |-> full_text,
                                    status |-> Success])
                 line == Format4f(confidence)
             IN  IF line.raised
                 THEN DictSet(stored, "PyTesseract", Failed(line.exc))
                 ELSE stored

\* The call log: what the adapter handed back to run_all ("raised", with
\* the message; "none" for a returned None; "empty" for a return without
\* any confidence value; "detected" otherwise) and the entry the block
\* stores for it in an empty map.
Call(engine, outcome, exc, entry) ==
    [engine |-> engine, outcome |-> outcome, exc |-> exc, entry |-> entry]

CloudCall(env) ==
    LET r == GoogleCloudVisionAPI_detect_document(env)
    IN  Call("GoogleCloudVision",
             IF r.raised THEN "raised"
             ELSE IF r.value.average_confidence = None THEN "empty"
             ELSE "detected",
             IF r.raised THEN r.exc ELSE "",
             RunAll_cloud(<<>>, env)[1][2])

EasyCall(env) ==
    LET p == EasyOCRProcessor_init(env)
        r == IF p.raised THEN p ELSE EasyOCRProcessor_process_image(env)
    IN  Call("EasyOCR",
             IF r.raised THEN "raised"
             ELSE IF r.value[2] = <<>> THEN "empty"
             ELSE "detected",
             IF r.raised THEN r.exc ELSE "",
             RunAll_easy(<<>>, env)[1][2])

TessCall(env) ==
    LET r == PyTesseractOCR_process_image_with_confidence(env, Zero)
    IN  Call("PyTesseract",
             IF r.raised THEN "raised"
             ELSE IF r.value = None THEN "none"
             ELSE IF r.value[1].data = <<>> THEN "empty"
             ELSE "detected",
             IF r.raised THEN r.exc ELSE "",
             RunAll_tess(<<>>, env)[1][2])

Out(op, ret, wrote, file, log) ==
    [op |-> op, ret |-> ret, wrote |-> wrote, file |-> file, log |-> log]

\* OCRComparator.__init__, in a process that has configured no logger and
\* received no request
Init ==
    /\ results = <<>>
    /\ pc = "idle"
    /\ calls = <<>>
    /\ rerun = FALSE
    /\ out = Out("__init__", "None", FALSE, <<>>, <<>>)
    /\ loggers = NewLoggers
    /\ logcall = None
    /\ firstcall = [n \in LoggerNames |-> [made |-> None, returned |-> None]]
    /\ request = None
    /\ response = None

\* the first block without its except clause: the exception of the adapter
\* leaves run_all
RunAll_GoogleCloudVision_propagates ==
    /\ pc = "idle"
    /\ \E env \in CloudEnvs :
        /\ calls' = <<CloudCall(env)>>
        /\ IF GoogleCloudVisionAPI_detect_document(env).raised
           THEN /\ results' = results
                /\ pc' = "idle"
                /\ out' = Out("run_all", "raise", FALSE, <<>>, <<>>)
           ELSE /\ results' = RunAll_cloud(results, env)
                /\ pc' = "easy"
                /\ out' = Out("run_all", "running", FALSE, <<>>, <<>>)
    /\ rerun' = (rerun \/ results # <<>>)
    /\ UNCHANGED <<logVars, webVars>>

\* run_all, first block: Google Cloud Vision
RunAll_GoogleCloudVision ==
    /\ pc = "idle"
    /\ \E env \in CloudEnvs :
        /\ results' = RunAll_cloud(results, env)
        /\ calls' = <<CloudCall(env)>>
    /\ pc' = "easy"
    /\ rerun' = (rerun \/ results # <<>>)
    /\ UNCHANGED <<logVars, webVars>>
    /\ out' = Out("run_all", "running", FALSE, <<>>, <<>>)

\* run_all, second block: EasyOCR
RunAll_EasyOCR ==
    /\ pc = "easy"
    /\ \E env \in EasyEnvs :
        /\ results' = RunAll_easy(results, env)
        /\ calls' = Append(calls, EasyCall(env))
    /\ pc' = "tess"
    /\ UNCHANGED <<rerun, out, logVars, webVars>>

\* run_all, third block: PyTesseract, and the return
RunAll_PyTesseract ==
    /\ pc = "tess"
    /\ \E env \in TessEnvs :
        /\ results' = RunAll_tess(results, env)
        /\ calls' = Append(calls, TessCall(env))
    /\ pc' = "idle"
    /\ UNCHANGED <<rerun, logVars, webVars>>
    /\ out' = Out("run_all", "results", FALSE, <<>>, <<>>)

\* extracted_text_preview keeps the first PreviewLen characters
PreviewLen == 100

CsvHeader ==
    <<"image_file", "ocr_model", "confidence_score", "status",
      "extracted_text_preview", "timestamp">>

\* lines 116-128 of export_to_csv: one dict per item of self.results (the
\* timestamp column, datetime.now(), is left out of the row)
CsvRow(model_name, model_data) ==
    [image_file |-> PathName(ImagePath),
     ocr_model |-> model_name,
     confidence_score |-> Get(model_data, "confidence", Zero),
     status |-> Get(model_data, "status", Unknown),
     extracted_text_preview |-> Slice(Get(model_data, "full_text", <<>>), PreviewLen)]

\* rows for the successful entries only
CsvData_successful(res) ==
    LET ok == SelectSeq(res, LAMBDA kv : Get(kv[2], "status", None) = <<"success">>)
    IN  [i \in 1..Len(ok) |-> CsvRow(ok[i][1], ok[i][2])]

CsvData(res) == [i \in 1..Len(res) |-> CsvRow(res[i][1], res[i][2])]

\* what the write to the output path can do
WriteOutcomes == {"ok", "io_error"}

\* export_to_csv without the check for empty results
export_to_csv_unguarded ==
    /\ pc = "idle"
    /\ \E io \in WriteOutcomes :
        out' = IF io = "io_error"
               THEN Out("export_to_csv", "raise", FALSE, <<>>, <<>>)
               ELSE Out("export_to_csv", "path", TRUE,
                        [header |-> CsvHeader, rows |-> CsvData(results)], <<>>)
    /\ UNCHANGED <<results, pc, calls, rerun, logVars, webVars>>

export_to_csv ==
    /\ pc = "idle"
    /\ \E io \in WriteOutcomes :
        out' = IF results = <<>>
               THEN Out("export_to_csv", "None", FALSE, <<>>, <<>>)
               ELSE IF io = "io_error"
               THEN Out("export_to_csv", "raise", FALSE, <<>>, <<>>)
               ELSE Out("export_to_csv", "path", TRUE,
                        [header |-> CsvHeader, rows |-> CsvData(results)], <<>>)
    /\ UNCHANGED <<results, pc, calls, rerun, logVars, webVars>>

\* lines 157-161 of export_to_json: full_results (the timestamp key is left
\* out)
JsonDocument(res) == [image_file |-> ImagePath, models |-> res]

\* the items of an entry of results, in the order its dict literal lists them
EntryItems(entry) ==
    LET ks == SelectSeq(<<"confidence", "full_text", "status">>,
                        LAMBDA k : k \in DOMAIN entry)
    IN  [i \in 1..Len(ks) |-> <<ks[i], entry[ks[i]]>>]

\* json.dump writes a sequence of tokens: <<"{">>, <<"}">>, <<":">>, <<",">>,
\* <<"string", s>> and <<"number", x>>
JsonString(s) == <<"string", s>>

JsonNumber(x) == <<"number", x>>

\* "key": value, "key": value, ... for a sequence of <<key, tokens>>
RECURSIVE JsonMembers(_)
JsonMembers(ms) ==
    IF ms = <<>> THEN <<>>
    ELSE <<JsonString(ms[1][1]), <<":">> >> \o ms[1][2]
         \o (IF Len(ms) > 1 THEN << <<",">> >> ELSE <<>>)
         \o JsonMembers(Tail(ms))

JsonObject(ms) == << <<"{">> >> \o JsonMembers(ms) \o << <<"}">> >>

\* one entry of results: a float under confidence, strings elsewhere
JsonEntry(entry) ==
    LET items == EntryItems(entry)
    IN  JsonObject([i \in 1..Len(items) |->
            <<items[i][1],
              IF items[i][1] = "confidence"
              THEN <<JsonNumber(items[i][2])>>
              ELSE <<JsonString(items[i][2])>> >>])

\* json.dump(full_results, f, indent=2, ensure_ascii=False)
JsonDump(doc) ==
    JsonObject(<< <<"image_file", <<JsonString(doc.image_file)>> >>,
                  <<"models",
                    JsonObject([i \in 1..Len(doc.models) |->
                        <<doc.models[i][1], JsonEntry(doc.models[i][2])>>])>> >>)

\* json.load of a written file: an object becomes a dict (a sequence of
\* <<key, value>> pairs in file order); [value, next] is the value read at
\* position i and the position after it
RECURSIVE JsonParseValue(_, _)
RECURSIVE JsonParseMembers(_, _, _)
JsonParseValue(toks, i) ==
    IF toks[i][1] = "{" THEN JsonParseMembers(toks, i + 1, <<>>)
    ELSE [value |-> toks[i][2], next |-> i + 1]

JsonParseMembers(toks, i, acc) ==
    IF toks[i][1] = "}" THEN [value |-> acc, next |-> i + 1]
    ELSE IF toks[i][1] = "," THEN JsonParseMembers(toks, i + 1, acc)
    ELSE LET v == JsonParseValue(toks, i + 2)
         IN  JsonParseMembers(toks, v.next, DictSet(acc, toks[i][2], v.value))

JsonLoad(toks) == JsonParseValue(toks, 1).value

\* the dict handed to json.dump and the text that reaches the file
JsonFile(res) ==
    [image_file |-> JsonDocument(res).image_file,
     models |-> JsonDocument(res).models,
     text |-> JsonDump(JsonDocument(res))]

\* an export that empties results once the file is written
export_to_json_clears ==
    /\ pc = "idle"
    /\ \E io \in WriteOutcomes :
        /\ out' = IF results = <<>>
                  THEN Out("export_to_json", "None", FALSE, <<>>, <<>>)
                  ELSE IF io = "io_error"
                  THEN Out("export_to_json", "raise", FALSE, <<>>, <<>>)
                  ELSE Out("export_to_json", "path", TRUE, JsonFile(results), <<>>)
        /\ results' = IF io = "io_error" THEN results ELSE <<>>
    /\ UNCHANGED <<pc, calls, rerun, logVars, webVars>>

export_to_json ==
    /\ pc = "idle"
    /\ \E io \in WriteOutcomes :
        out' = IF results = <<>>
               THEN Out("export_to_json", "None", FALSE, <<>>, <<>>)
               ELSE IF io = "io_error"
               THEN Out("export_to_json", "raise", FALSE, <<>>, <<>>)
               ELSE Out("export_to_json", "path", TRUE, JsonFile(results), <<>>)
    /\ UNCHANGED <<results, pc, calls, rerun, logVars, webVars>>

\* min instead of max
RECURSIVE MaxByConfidence_min(_)
MaxByConfidence_min(items) ==
    IF Len(items) = 1 THEN items[1]
    ELSE LET m == MaxByConfidence_min(Tail(items))
         IN  IF RLess(m[2].confidence, items[1][2].confidence) THEN m ELSE items[1]

\* max(items, key=confidence): the first item with the largest confidence
RECURSIVE MaxByConfidence(_)
MaxByConfidence(items) ==
    IF Len(items) = 1 THEN items[1]
    ELSE LET m == MaxByConfidence(Tail(items))
         IN  IF RLess(items[1][2].confidence, m[2].confidence) THEN m ELSE items[1]

\* no filter on the status
SuccessfulModels_all(res) == res

\* {k: v for k, v in self.results.items() if v.get("status") == "success"}
SuccessfulModels(res) == SelectSeq(res, LAMBDA kv : Get(kv[2], "status", None) = Success)

\* print_summary: the log lines it emits, with the values handed to the
\* formatter, and whether it raised
PrintSummary(res) ==
    IF res = <<>>
    THEN [raised |-> FALSE, log |-> <<[kind |-> "warning"]>>]
    ELSE LET lines == [i \in 1..Len(res) |->
                         [kind |-> "model",
                          name |-> res[i][1],
                          confidence |-> Get(res[i][2], "confidence", Zero),
                          status |-> Get(res[i][2], "status", Unknown)]]
             successful_models == SuccessfulModels(res)
         IN  IF successful_models # <<>>
             THEN LET total == RSum([i \in 1..Len(successful_models) |->
                                        successful_models[i][2].confidence])
                      avg_confidence == TrueDiv(total, Len(successful_models))
                      best_model == MaxByConfidence(successful_models)
                  IN  IF avg_confidence.raised
                      THEN [raised |-> TRUE, log |-> lines]
                      ELSE [raised |-> FALSE,
                            log |-> lines \o
                               <<[kind |-> "average", value |-> avg_confidence.value],
                                 [kind |-> "best", name |-> best_model[1],
                                  confidence |-> best_model[2].confidence]>>]
             ELSE [raised |-> FALSE, log |-> lines]

print_summary ==
    /\ pc = "idle"
    /\ LET r == PrintSummary(results)
       IN  out' = Out("print_summary", IF r.raised THEN "raise" ELSE "None",
                      FALSE, <<>>, r.log)
    /\ UNCHANGED <<results, pc, calls, rerun, logVars, webVars>>

Next ==
    \/ RunAll_GoogleCloudVision
    \/ RunAll_EasyOCR
    \/ RunAll_PyTesseract
    \/ export_to_csv
    \/ export_to_json
    \/ print_summary

Spec == Init /\ [][Next]_vars

\* the logger factory alone
NextLogger == get_logger

SpecLogger == Init /\ [][NextLogger]_vars

\* the middleware alone
NextAuth ==
    \/ receive_request
    \/ supabase_auth_middleware

SpecAuth == Init /\ [][NextAuth]_vars

----------------------------------------------------------------------------
\* Properties

\* the order of the three blocks of run_all
EngineOrder == <<"GoogleCloudVision", "EasyOCR", "PyTesseract">>

RunCompleted == pc = "idle" /\ calls # <<>>

EntryOf(engine) == Lookup(results, engine)

Succeeded(engine) == Has(results, engine) /\ EntryOf(engine).status = Success

SuccessCount == Cardinality({i \in 1..Len(results) : results[i][2].status = Success})

\* the confidence an entry adds to the sum over the successful entries
SuccessShare(i) ==
    IF results[i][2].status = Success THEN results[i][2].confidence ELSE Zero

LogHas(kind) == \E j \in 1..Len(out.log) : out.log[j].kind = kind

LogLine(kind) == out.log[CHOOSE j \in 1..Len(out.log) : out.log[j].kind = kind]

\* C1: after every completed run_all, first or repeated and whatever the
\* engines did, results has exactly the three engine keys in invocation
\* order, and each entry is the one the latest run computed for that engine.
C1_ThreeEntriesOfLatestRun ==
    RunCompleted =>
        /\ Keys(results) = EngineOrder
        /\ \A i \in 1..Len(results) :
            /\ calls[i].engine = results[i][1]
            /\ results[i][2] = calls[i].entry

C1_Witness ==
    /\ RunCompleted
    /\ rerun
    /\ out.op = "run_all"
    /\ ~Succeeded("GoogleCloudVision")
    /\ Succeeded("EasyOCR")
    /\ ~Succeeded("PyTesseract")

\* C2: within one run_all the engines are invoked one after another in the
\* order cloud, neural, classical, each once; a failed engine does not stop
\* the next one from being invoked, and run_all returns results instead of
\* raising.
C2_SequentialIsolatedRun ==
    /\ [i \in 1..Len(calls) |-> calls[i].engine] = SubSeq(EngineOrder, 1, Len(calls))
    /\ pc \in {"idle", "easy", "tess"}
    /\ pc = "easy" => Len(calls) = 1 /\ ENABLED RunAll_EasyOCR
    /\ pc = "tess" => Len(calls) = 2 /\ ENABLED RunAll_PyTesseract
    /\ pc = "idle" => Len(calls) \in {0, 3}
    /\ out.op = "run_all" => out.ret # "raise"
    /\ (out.op = "run_all" /\ pc = "idle") => out.ret = "results"

C2_Witness ==
    /\ pc = "idle"
    /\ out.op = "run_all"
    /\ out.ret = "results"
    /\ Len(calls) = 3
    /\ calls[1].outcome = "raised"
    /\ calls[2].outcome = "raised"
    /\ calls[3].outcome = "detected"

CloudDownOthersUp ==
    /\ RunCompleted
    /\ calls[1].outcome = "raised"
    /\ Succeeded("EasyOCR")
    /\ Succeeded("PyTesseract")

\* C3: when the cloud engine fails and the other two succeed, results still
\* has three entries, the cloud entry has an error status carrying the
\* reason and confidence 0.0, and the average of the summary is the mean of
\* the two successful confidences.
C3_CloudFailureIsRecorded ==
    CloudDownOthersUp =>
        /\ Len(results) = 3
        /\ IsError(EntryOf("GoogleCloudVision").status)
        /\ EntryOf("GoogleCloudVision").status[2] = calls[1].exc
        /\ calls[1].exc # ""
        /\ EntryOf("GoogleCloudVision").confidence = Zero
        /\ out.op = "print_summary" =>
            /\ LogHas("average")
            /\ LogLine("average").value =
                 Rat(RAdd(EntryOf("EasyOCR").confidence,
                          EntryOf("PyTesseract").confidence)[1],
                     2 * RAdd(EntryOf("EasyOCR").confidence,
                              EntryOf("PyTesseract").confidence)[2])

C3_Witness ==
    /\ CloudDownOthersUp
    /\ out.op = "print_summary"
    /\ calls[1].exc = "503 failed to connect to all addresses"
    /\ RLess(Zero, EntryOf("EasyOCR").confidence)
    /\ RLess(Zero, EntryOf("PyTesseract").confidence)

SummaryAverageIsMeanOfSuccesses ==
    (out.op = "print_summary" /\ SuccessCount > 0) =>
        /\ LogHas("average")
        /\ LET total == RAdd(RAdd(SuccessShare(1), SuccessShare(2)), SuccessShare(3))
               avg == LogLine("average").value
           IN  avg[1] * total[2] * SuccessCount = total[1] * avg[2]

\* C4: print_summary averages over the successful entries only; when no
\* engine succeeded it reports "no successful engine", and it never divides
\* by zero.
C4_SummaryReportsNoSuccessfulEngine ==
    /\ SummaryAverageIsMeanOfSuccesses
    /\ out.op = "print_summary" => out.ret # "raise"
    /\ (out.op = "print_summary" /\ results # <<>> /\ SuccessCount = 0) =>
            LogHas("no successful engine")

\* C5: when at least one engine succeeded, the best model of the summary is
\* a successful engine whose confidence is at least that of every other
\* successful engine, and the average is the sum of the successful
\* confidences divided by their number; failed engines count in neither.
C5_BestAndAverageOverSuccesses ==
    (out.op = "print_summary" /\ SuccessCount > 0) =>
        /\ out.ret = "None"
        /\ SummaryAverageIsMeanOfSuccesses
        /\ LogHas("best")
        /\ Succeeded(LogLine("best").name)
        /\ LogLine("best").confidence = EntryOf(LogLine("best").name).confidence
        /\ \A i \in 1..Len(results) :
              results[i][2].status = Success =>
                  RLeq(results[i][2].confidence, LogLine("best").confidence)

C5_Witness ==
    /\ out.op = "print_summary"
    /\ SuccessCount = 3
    /\ RLess(EntryOf("GoogleCloudVision").confidence, EntryOf("EasyOCR").confidence)
    /\ RLess(EntryOf("EasyOCR").confidence, EntryOf("PyTesseract").confidence)
    /\ LogLine("best").name = "PyTesseract"

C5_WitnessPartial ==
    /\ out.op = "print_summary"
    /\ SuccessCount = 2
    /\ ~Succeeded("PyTesseract")

InUnitInterval(c) == RLeq(Zero, c) /\ RLeq(c, One)

\* C6: every confidence that run_all stores, and that export_to_csv and
\* export_to_json write, lies in [0.0, 1.0] for all three engines (the
\* 0-100 scores of the classical engine divided by 100).
C6_ConfidencesInUnitInterval ==
    /\ pc = "idle" =>
          \A i \in 1..Len(results) : InUnitInterval(results[i][2].confidence)
    /\ (out.op = "export_to_csv" /\ out.wrote) =>
          \A i \in 1..Len(out.file.rows) :
              InUnitInterval(out.file.rows[i].confidence_score)
    /\ (out.op = "export_to_json" /\ out.wrote) =>
          \A i \in 1..Len(out.file.models) :
              InUnitInterval(out.file.models[i][2].confidence)

\* C7: for each engine, a run without failure that reports no detections
\* (no confidence value at all) is recorded with confidence 0.0 and status
\* success.
C7_NoDetectionsIsSuccess ==
    \A i \in 1..Len(calls) :
        calls[i].outcome = "empty" =>
            /\ EntryOf(calls[i].engine).status = Success
            /\ EntryOf(calls[i].engine).confidence = Zero

\* C8 as stated: no adapter ever raises to run_all.
C8_AdaptersNeverRaise ==
    \A i \in 1..Len(calls) : calls[i].outcome # "raised"

\* C8, amended: PyTesseractOCR.process_image_with_confidence never raises
\* (it returns None on any failure); a failure of the cloud or of the
\* EasyOCR adapter reaches run_all as an exception; either way run_all
\* records an error entry with confidence 0.0 and no text, carrying the
\* message of the exception.
C8_FailuresEndAsErrorEntries ==
    \A i \in 1..Len(calls) :
        /\ calls[i].engine = "PyTesseract" =>
              calls[i].outcome \in {"none", "empty", "detected"}
        /\ calls[i].outcome \in {"raised", "none"} =>
              /\ IsError(EntryOf(calls[i].engine).status)
              /\ EntryOf(calls[i].engine).confidence = Zero
              /\ DOMAIN EntryOf(calls[i].engine) = {"confidence", "status"}
        /\ calls[i].outcome = "raised" =>
              /\ calls[i].engine \in {"GoogleCloudVision", "EasyOCR"}
              /\ EntryOf(calls[i].engine).status = ErrorStatus(calls[i].exc)

C8_Witness ==
    /\ RunCompleted
    /\ calls[1].outcome = "raised"
    /\ calls[2].outcome = "raised"
    /\ calls[3].outcome = "none"
    /\ EntryOf("PyTesseract").status = ErrorStatus("PyTesseract returned None")

IsExport(op) == op \in {"export_to_csv", "export_to_json"}

\* C9: an export called while results is empty returns None, writes no
\* file and leaves results empty.
C9_EmptyExportReturnsNone ==
    [][(results = <<>> /\ pc = "idle" /\ IsExport(out'.op)) =>
          /\ out'.ret = "None"
          /\ ~out'.wrote
          /\ results' = <<>>]_vars

C9_WitnessCsv == results = <<>> /\ out.op = "export_to_csv" /\ out.ret = "None"

C9_WitnessJson == results = <<>> /\ out.op = "export_to_json" /\ out.ret = "None"

ExpectedPreview(entry) ==
    IF "full_text" \notin DOMAIN entry THEN <<>>
    ELSE IF Len(entry.full_text) > 100 THEN SubSeq(entry.full_text, 1, 100)
    ELSE entry.full_text

\* C10: export_to_csv writes one data row per entry of results, in results
\* order, with the entry's confidence and status; the preview is the first
\* 100 characters of a longer text, the whole text when it has at most 100
\* characters, and empty for an entry without text.
C10_CsvRowsMirrorResults ==
    (out.op = "export_to_csv" /\ out.wrote) =>
        /\ Len(out.file.rows) = Len(results)
        /\ \A i \in 1..Len(results) :
            /\ out.file.rows[i].ocr_model = results[i][1]
            /\ out.file.rows[i].confidence_score = results[i][2].confidence
            /\ out.file.rows[i].status = results[i][2].status
            /\ out.file.rows[i].extracted_text_preview = ExpectedPreview(results[i][2])

C10_Witness ==
    /\ out.op = "export_to_csv"
    /\ out.wrote
    /\ Succeeded("GoogleCloudVision")
    /\ Succeeded("EasyOCR")
    /\ Len(EntryOf("GoogleCloudVision").full_text) = 101
    /\ Len(out.file.rows[1].extracted_text_preview) = 100
    /\ Len(EntryOf("EasyOCR").full_text) = 100
    /\ out.file.rows[2].extracted_text_preview = EntryOf("EasyOCR").full_text
    /\ IsError(EntryOf("PyTesseract").status)
    /\ out.file.rows[3].extracted_text_preview = <<>>

JsonWritten == out.op = "export_to_json" /\ out.wrote

\* the models object read back from the written JSON file
ParsedModels(file) == Lookup(JsonLoad(file.text), "models")

\* C11: for every engine, successful or failed, the object written under
\* models has the three keys confidence, full_text and status, and reading
\* the file back gives the full text and the status held in results.
C11_JsonRoundTripsEveryEngine ==
    JsonWritten =>
        LET models == ParsedModels(out.file)
        IN  /\ Keys(models) = Keys(results)
            /\ \A i \in 1..Len(results) :
                 LET obj == models[i][2]
                 IN  /\ {obj[j][1] : j \in 1..Len(obj)} =
                            {"confidence", "full_text", "status"}
                     /\ Lookup(obj, "status") = results[i][2].status
                     /\ Lookup(obj, "full_text") = Get(results[i][2], "full_text", <<>>)

\* C12: when the write of an export fails on non-empty results, the export
\* returns None to its caller and no exception leaves the comparator.
C12_WriteFailureReturnsNone ==
    (IsExport(out.op) /\ results # <<>> /\ ~out.wrote) => out.ret = "None"

AllEnginesFailed ==
    /\ RunCompleted
    /\ \A i \in 1..Len(calls) : calls[i].outcome \in {"raised", "none"}

\* C13: after a run in which all three engines fail, an export whose write
\* goes through returns the written path, and the CSV and the JSON each
\* list three entries, all with an error status and confidence 0.0.
C13_ExportsAfterTotalFailure ==
    (AllEnginesFailed /\ IsExport(out.op) /\ out.ret # "raise") =>
        /\ out.ret = "path"
        /\ out.wrote
        /\ out.op = "export_to_csv" =>
              /\ Len(out.file.rows) = 3
              /\ \A i \in 1..Len(out.file.rows) :
                    /\ out.file.rows[i].ocr_model = EngineOrder[i]
                    /\ IsError(out.file.rows[i].status)
                    /\ out.file.rows[i].confidence_score = Zero
        /\ out.op = "export_to_json" =>
              LET models == ParsedModels(out.file)
              IN  /\ Keys(models) = EngineOrder
                  /\ \A i \in 1..Len(models) :
                        /\ IsError(Lookup(models[i][2], "status"))
                        /\ Lookup(models[i][2], "confidence") = Zero

C13_Witness ==
    /\ AllEnginesFailed
    /\ out.op = "export_to_csv"
    /\ out.ret = "path"
    /\ Len(out.file.rows) = 3

C13_WitnessJson ==
    /\ AllEnginesFailed
    /\ JsonWritten
    /\ out.ret = "path"

\* C14: export_to_csv, export_to_json and print_summary leave results
\* unchanged, so every export after a run whose write goes through returns
\* a path and writes the confidence, status and text that results holds
\* for each engine.
C14_ExportsLeaveResultsUnchanged ==
    [][(pc = "idle" /\ pc' = "idle") =>
          /\ results' = results
          /\ (IsExport(out'.op) /\ results # <<>> /\ out'.ret # "raise") =>
                /\ out'.ret = "path"
                /\ out'.wrote
          /\ (out'.op = "export_to_csv" /\ out'.wrote) =>
                /\ Len(out'.file.rows) = Len(results)
                /\ \A i \in 1..Len(results) :
                      /\ out'.file.rows[i].ocr_model = results[i][1]
                      /\ out'.file.rows[i].confidence_score = results[i][2].confidence
                      /\ out'.file.rows[i].status = results[i][2].status
                      /\ out'.file.rows[i].extracted_text_preview =
                            ExpectedPreview(results[i][2])
          /\ (out'.op = "export_to_json" /\ out'.wrote) =>
                /\ Keys(ParsedModels(out'.file)) = Keys(results)
                /\ \A i \in 1..Len(results) :
                      ParsedModels(out'.file)[i][2] = EntryItems(results[i][2])]_vars

C14_Witness ==
    /\ RunCompleted
    /\ JsonWritten
    /\ \A i \in 1..Len(results) : results[i][2] = calls[i].entry
    /\ Succeeded("EasyOCR")
    /\ Len(Lookup(Lookup(ParsedModels(out.file), "EasyOCR"), "full_text")) > 100

\* the settings a call leaves in effect on logger n: its level and whether
\* it logs to the console
InEffect(n, args) ==
    /\ loggers[n].level = NameToLevel[Upper(args.log_level)]
    /\ (Len(Handlers(loggers, n, "console")) = 1) = args.console

\* C15 as stated: after any sequence of get_logger calls a logger has at
\* most one file and one console handler, a repeated call for a name adds
\* no handler, and the level and console settings of the first call for the
\* name stay in effect.
C15_FirstCallStaysInEffect ==
    \A n \in LoggerNames :
        /\ Len(Handlers(loggers, n, "file")) <= 1
        /\ Len(Handlers(loggers, n, "console")) <= 1
        /\ (logcall # None /\ logcall[1].logger = n /\ logcall[1].repeats_made) =>
              logcall[1].added = 0
        /\ (firstcall[n].made # None /\ loggers[n].handlers # <<>>) =>
              InEffect(n, firstcall[n].made[1])

\* C15, amended: a logger has at most one file and one console handler;
\* once a call for a name has returned, a later call for that name adds no
\* handler and returns the same logger, and the level and console settings
\* of the first call that returned stay in effect.
C15_FirstReturnedCallStaysInEffect ==
    \A n \in LoggerNames :
        /\ Len(Handlers(loggers, n, "file")) <= 1
        /\ Len(Handlers(loggers, n, "console")) <= 1
        /\ (logcall # None /\ logcall[1].logger = n /\ logcall[1].repeats_returned) =>
              /\ logcall[1].added = 0
              /\ ~logcall[1].raised
        /\ firstcall[n].returned # None =>
              /\ loggers[n].handlers # <<>>
              /\ InEffect(n, firstcall[n].returned[1])
              /\ \A i \in 1..Len(loggers[n].handlers) :
                    loggers[n].handlers[i].level = loggers[n].level
        /\ (firstcall[n].returned = None) => loggers[n].handlers = <<>>

C15_Witness ==
    /\ logcall # None
    /\ logcall[1].logger = <<"main">>
    /\ logcall[1].repeats_returned
    /\ firstcall[<<"main">>].returned[1] = [log_level |-> "info", console |-> FALSE]
    /\ firstcall[<<"main">>].made[1] = [log_level |-> "DEBUG", console |-> TRUE]
    /\ loggers[<<"main">>].level = NameToLevel.INFO

Handled == request # None /\ response # None

\* the user get_current_user is to accept: the debug token, or a token
\* whose kid names a key of the key set, that verifies against that key
\* and carries the issuer of the configured SUPABASE_URL
Acceptable(credentials, env) ==
    /\ credentials # None
    /\ LET token == credentials[1].credentials
           url == Getenv(env.supabase_url, <<>>)
       IN  \/ token = Getenv(env.debug_token, DefaultDebugToken)
           \/ /\ url # <<>>
              /\ JwtParts(token) # None
              /\ JwtParts(token)[1].header.kid # None
              /\ env.jwks.kind = "ok"
              /\ \E i \in 1..Len(env.jwks.keys) :
                    /\ env.jwks.keys[i].kid = JwtParts(token)[1].header.kid
                    /\ \A j \in 1..(i - 1) :
                          env.jwks.keys[j].kid # JwtParts(token)[1].header.kid
                    /\ JwtParts(token)[1].signer = env.jwks.keys[i].signer
                    /\ ~JwtParts(token)[1].expired
                    /\ JwtParts(token)[1].payload.aud = "authenticated"
              /\ JwtParts(token)[1].payload.iss = url \o <<"/auth/v1/">>

Is401(r) ==
    /\ r.raised
    /\ r.exc.type = "HTTPException"
    /\ r.exc.status_code = 401

\* C16: get_current_user returns a user only for the debug token or for a
\* token that names a key of the key set, verifies against it and has the
\* issuer <SUPABASE_URL>/auth/v1/; in every other case it raises a 401
\* error and returns no user.
C16_UserOrUnauthorized ==
    (Handled /\ response[1].auth # None) =>
        IF Acceptable(response[1].credentials, request[1].env)
        THEN ~response[1].auth[1].raised
        ELSE Is401(response[1].auth[1])

\* the public paths, as the middleware's comment and test list them
Public(path) ==
    \/ path = PathHealth
    \/ path = PathOpenapi
    \/ path = PathFavicon
    \/ (Len(path) >= 5 /\ SubSeq(path, 1, 5) = PathDocs)
    \/ (Len(path) >= 6 /\ SubSeq(path, 1, 6) = PathRedoc)

\* C17: a request on a non-public path reaches its handler only after
\* get_current_user returned a user, which is then request.state.user; if
\* get_current_user raises anything the response is 401 with
\* WWW-Authenticate: Bearer and the handler is not invoked; a public path
\* reaches its handler without get_current_user being called.
C17_HandlerOnlyBehindAuth ==
    Handled =>
        LET rq == request[1]
            rs == response[1]
        IN  IF Public(rq.path)
            THEN /\ rs.events = <<"call_next">>
                 /\ rs.auth = None
            ELSE /\ rs.events[1] = "get_current_user"
                 /\ rs.auth # None
                 /\ IF rs.auth[1].raised
                    THEN /\ rs.events = <<"get_current_user">>
                         /\ rs.status_code = 401
                         /\ rs.headers = <<"WWW-Authenticate", "Bearer">>
                         /\ rs.user = None
                    ELSE /\ rs.events = <<"get_current_user", "call_next">>
                         /\ rs.user = <<rs.auth[1].value>>
                         /\ rs.status_code = CallNext(rq.path)

C17_Witness ==
    /\ Handled
    /\ ~Public(request[1].path)
    /\ response[1].auth # None
    /\ response[1].auth[1].raised
    /\ response[1].auth[1].exc.type = "KeyError"
    /\ response[1].status_code = 401

C17_WitnessUser ==
    /\ Handled
    /\ ~Public(request[1].path)
    /\ response[1].user # None
    /\ response[1].user[1].sub = "user-1"
    /\ response[1].events = <<"get_current_user", "call_next">>

C17_WitnessPublic ==
    /\ Handled
    /\ StartsWith(request[1].path, PathDocs)
    /\ request[1].path # PathDocs
    /\ response[1].events = <<"call_next">>

====
